---- MODULE Spec2Model ----
(***************************************************************************)
(* til::spsc (src/src/inc/til/spsc.h): a bounded single-producer,          *)
(* single-consumer channel.  The model follows the header: the bit-packed  *)
(* position words, arc::acquire / release / drop, ~arc, the sender and     *)
(* receiver methods and the channel() factory.  One producer thread owns   *)
(* the sender, one consumer thread owns the receiver; every atomic access  *)
(* of a position word is one step.                                         *)
(***************************************************************************)
EXTENDS Integers, Sequences, FiniteSets, TLC

(* ---- bounds of the model ---- *)
MaxCapacity == 3
MaxSend == 4
MaxBatch == 2
MaxDrops == 2

(* ---- size_type words: drop bit (31), revolution bit (30), value (0..29) ---- *)
position_mask == 1073741823

Word(d, r, v) == [drop |-> d, rev |-> r, value |-> v]

ZeroWord == Word(0, 0, 0)

revolution_flag == Word(0, 1, 0)

drop_flag == Word(1, 0, 0)

\* size_type n as a word; the model only builds words from n < 2^31
ToWord(n) == Word(0, (n \div (position_mask + 1)) % 2, n % (position_mask + 1))

RECURSIVE BitXor(_, _)
BitXor(a, b) ==
    IF a = 0 THEN b
    ELSE IF b = 0 THEN a
    ELSE ((a + b) % 2) + 2 * BitXor(a \div 2, b \div 2)

RECURSIVE BitOr(_, _)
BitOr(a, b) ==
    IF a = 0 THEN b
    ELSE IF b = 0 THEN a
    ELSE (IF a % 2 = 1 \/ b % 2 = 1 THEN 1 ELSE 0) + 2 * BitOr(a \div 2, b \div 2)

RECURSIVE BitAnd(_, _)
BitAnd(a, b) ==
    IF a = 0 \/ b = 0 THEN 0
    ELSE (IF a % 2 = 1 /\ b % 2 = 1 THEN 1 ELSE 0) + 2 * BitAnd(a \div 2, b \div 2)

WordXor(a, b) ==
    Word((a.drop + b.drop) % 2, (a.rev + b.rev) % 2, BitXor(a.value, b.value))

WordOr(a, b) ==
    Word(IF a.drop + b.drop > 0 THEN 1 ELSE 0,
         IF a.rev + b.rev > 0 THEN 1 ELSE 0,
         BitOr(a.value, b.value))

WordAnd(a, b) ==
    Word(a.drop * b.drop, a.rev * b.rev, BitAnd(a.value, b.value))

Min(a, b) == IF a < b THEN a ELSE b

\* variant of validate_size: the limit is one too high
validate_size_Lenient(v) == v > position_mask + 1

\* validate_size: TRUE when it throws std::overflow_error
validate_size(v) == v > position_mask

(* ---- acquisition ---- *)
Acquisition(b, e, n) == [begin |-> b, end |-> e, next |-> n]

\* acquisition{} : begin = end = next = 0
EmptyAcquisition == Acquisition(0, 0, ZeroWord)

\* acquisition::operator bool
acquisition_bool(a) == a.end # 0

(* ---- threads ---- *)
Side == {"producer", "consumer"}

Peer(s) == IF s = "producer" THEN "consumer" ELSE "producer"

\* variant of WaitMask: producer_acquire passes 0 like consumer_acquire
WaitMask_Zero(s) == ZeroWord

\* waitMask of producer_acquire / consumer_acquire
\* variant of WaitMask: the two sides use each other's mask
WaitMask_Swapped(s) == IF s = "producer" THEN ZeroWord ELSE revolution_flag

WaitMask(s) == IF s = "producer" THEN revolution_flag ELSE ZeroWord

IdleThread ==
    [pc |-> "idle", op |-> "none", myPos |-> ZeroWord, theirPos |-> ZeroWord,
     acquisition |-> EmptyAcquisition, closed |-> FALSE,
     count |-> 0, req |-> 0, base |-> 0, dst |-> "none", src |-> "none"]

NoRet == [op |-> "none", ok |-> TRUE, base |-> 0, first |-> 0, req |-> 0, threw |-> FALSE]

\* what a call returned: the flag, and the iterator at the call (base) and as returned (first)
Ret(o, k, b, f, r) ==
    [op |-> o, ok |-> k, base |-> b, first |-> f, req |-> r, threw |-> FALSE]

\* the i-th element of the producer's input sequence (1-based)
Source(i) == i

nullptr == 0

\* a handle object that is not constructed (or already destroyed)
NoObject == -1

ArcId == 1

VARIABLES
    chan,               \* outcome of channel(): "none" (not called yet), "ok", "invalid_argument"
    capacityArg,        \* the argument channel() was called with
    sender, receiver,   \* sender::_arc / receiver::_arc of the two handles
    other,              \* per thread: _arc of a second handle object it owns, NoObject if none
    drops,              \* per thread: calls of drop_producer / drop_consumer so far
    allocated,          \* an arc has been created by new
    deletes,            \* how many times the arc has been deleted
    _capacity, _data, _eitherSideDropped, _producer, _consumer,
    th,                 \* per thread: position in the code and locals
    ret,                \* per thread: what its last call returned
    in,                 \* producer's input iterator: elements of Source consumed
    out,                \* everything the consumer received, in order
    sent,               \* values made visible by producer_release, in order
    consumed,           \* slots handed back by consumer_release
    destroyed,          \* slots destroyed by ~arc
    outAtDrop,          \* Len(out) when the sender stored its drop flag, -1 before
    uaf                 \* a thread touched the arc after it was deleted

arcVars == <<allocated, deletes, _capacity, _data, _eitherSideDropped, _producer, _consumer>>

vars == <<chan, capacityArg, sender, receiver, other, drops, allocated, deletes, _capacity, _data,
          _eitherSideDropped, _producer, _consumer, th, ret, in, out, sent,
          consumed, destroyed, outAtDrop, uaf>>

EmptyData == [i \in {} |-> 0]

Freed == deletes > 0

Init ==
    /\ chan = "none"
    /\ capacityArg = 0
    /\ sender = nullptr
    /\ receiver = nullptr
    /\ other = [s \in Side |-> NoObject]
    /\ drops = [s \in Side |-> 0]
    /\ allocated = FALSE
    /\ deletes = 0
    /\ _capacity = 0
    /\ _data = EmptyData
    /\ _eitherSideDropped = FALSE
    /\ _producer = ZeroWord
    /\ _consumer = ZeroWord
    /\ th = [s \in Side |-> IdleThread]
    /\ ret = [s \in Side |-> NoRet]
    /\ in = 0
    /\ out = <<>>
    /\ sent = <<>>
    /\ consumed = 0
    /\ destroyed = {}
    /\ outAtDrop = -1
    /\ uaf = FALSE

(* ---- channel() ---- *)
CapacityArgs == (0 .. MaxCapacity) \cup {position_mask, position_mask + 1}

\* variant of ChannelRejects: the capacity is not checked at all
ChannelRejects_Never(capacity) == FALSE

\* lines 522-525: the only argument check of channel()
ChannelRejects(capacity) == capacity = 0

channel(capacity) ==
    /\ chan = "none"
    /\ capacityArg' = capacity
    /\ IF ChannelRejects(capacity)
       THEN /\ chan' = "invalid_argument"
            /\ UNCHANGED <<sender, receiver, arcVars>>
       ELSE /\ chan' = "ok"
            /\ allocated' = TRUE
            /\ _capacity' = capacity
            /\ _data' = EmptyData
            /\ _eitherSideDropped' = FALSE
            /\ _producer' = ZeroWord
            /\ _consumer' = ZeroWord
            /\ sender' = ArcId
            /\ receiver' = ArcId
            /\ UNCHANGED deletes
    /\ UNCHANGED <<other, drops, th, ret, in, out, sent, consumed, destroyed, outAtDrop, uaf>>

(* ---- arc ---- *)
Mine(s) == IF s = "producer" THEN _producer ELSE _consumer

Theirs(s) == IF s = "producer" THEN _consumer ELSE _producer

\* variant of StoreMine: the store goes to the other side's word
StoreMine_Theirs(s, w) ==
    IF s = "producer"
    THEN _consumer' = w /\ UNCHANGED _producer
    ELSE _producer' = w /\ UNCHANGED _consumer

\* mine.store(w): the other word is untouched
StoreMine(s, w) ==
    IF s = "producer"
    THEN _producer' = w /\ UNCHANGED _consumer
    ELSE _consumer' = w /\ UNCHANGED _producer

\* variant of MustWait: acquire() never waits
MustWait_Never(myPos, theirPos, waitMask) == FALSE

\* lines 270, 284: the two tests acquire() makes on the pair of words
MustWait(myPos, theirPos, waitMask) == WordXor(myPos, theirPos) = waitMask

\* variant of IsClosed: the producer, like the consumer, goes on until the words meet
IsClosed_DrainFirst(myPos, theirPos, waitMask) ==
    /\ WordAnd(theirPos, drop_flag) # ZeroWord
    /\ WordXor(myPos, theirPos) = drop_flag

\* variant of IsClosed: the consumer, like the producer, stops at once
IsClosed_Immediate(myPos, theirPos, waitMask) ==
    WordAnd(theirPos, drop_flag) # ZeroWord

IsClosed(myPos, theirPos, waitMask) ==
    /\ WordAnd(theirPos, drop_flag) # ZeroWord
    /\ (waitMask # ZeroWord \/ WordXor(myPos, theirPos) = drop_flag)

\* variant of AcquireRange: a range that ends at capacity stores capacity, the flag
\* is flipped by the release that follows
AcquireRange_LateFlip(myPos, theirPos, slots, capacity) ==
    LET revolution == WordAnd(myPos, revolution_flag)
        wrapped == IF myPos.value = capacity THEN WordXor(revolution, revolution_flag)
                   ELSE revolution
        begin == IF myPos.value = capacity THEN 0 ELSE myPos.value
        end0 == theirPos.value
        end1 == IF end0 > begin THEN end0 ELSE capacity
        end == Min(end1, begin + slots)
    IN  Acquisition(begin, end, WordOr(ToWord(end), wrapped))

\* variant of AcquireRange: the range is not limited to the requested number of slots
AcquireRange_NoClamp(myPos, theirPos, slots, capacity) ==
    LET begin == WordAnd(myPos, ToWord(position_mask)).value
        end0 == WordAnd(theirPos, ToWord(position_mask)).value
        end == IF end0 > begin THEN end0 ELSE capacity
        revolution == WordAnd(myPos, revolution_flag)
        next == IF end # capacity THEN WordOr(ToWord(end), revolution)
                ELSE WordXor(revolution, revolution_flag)
    IN  Acquisition(begin, end, next)

\* variant of AcquireRange: a range that reaches the end of the buffer goes on up to
\* the peer's position in the next revolution
AcquireRange_Span(myPos, theirPos, slots, capacity) ==
    LET begin == WordAnd(myPos, ToWord(position_mask)).value
        end0 == WordAnd(theirPos, ToWord(position_mask)).value
        end1 == IF end0 > begin THEN end0 ELSE capacity + end0
        end == Min(end1, begin + slots)
        revolution == WordAnd(myPos, revolution_flag)
        next == IF end < capacity THEN WordOr(ToWord(end), revolution)
                ELSE WordOr(ToWord(end - capacity), WordXor(revolution, revolution_flag))
    IN  Acquisition(begin, end, next)

\* variant of AcquireRange: the revolution flag is flipped by every release
AcquireRange_FlipAlways(myPos, theirPos, slots, capacity) ==
    LET begin == WordAnd(myPos, ToWord(position_mask)).value
        end0 == WordAnd(theirPos, ToWord(position_mask)).value
        end1 == IF end0 > begin THEN end0 ELSE capacity
        end == Min(end1, begin + slots)
        flipped == WordXor(WordAnd(myPos, revolution_flag), revolution_flag)
        next == IF end # capacity THEN WordOr(ToWord(end), flipped) ELSE flipped
    IN  Acquisition(begin, end, next)

\* variant of AcquireRange: the revolution flag is not flipped when the range ends at capacity
AcquireRange_NoFlip(myPos, theirPos, slots, capacity) ==
    LET begin == WordAnd(myPos, ToWord(position_mask)).value
        end0 == WordAnd(theirPos, ToWord(position_mask)).value
        end1 == IF end0 > begin THEN end0 ELSE capacity
        end == Min(end1, begin + slots)
        revolution == WordAnd(myPos, revolution_flag)
        next == IF end # capacity THEN WordOr(ToWord(end), revolution) ELSE revolution
    IN  Acquisition(begin, end, next)

\* variant of AcquireRange: the range is not cut at the end of the buffer
AcquireRange_NoWrap(myPos, theirPos, slots, capacity) ==
    LET begin == WordAnd(myPos, ToWord(position_mask)).value
        end0 == WordAnd(theirPos, ToWord(position_mask)).value
        end == Min(end0, begin + slots)
        revolution == WordAnd(myPos, revolution_flag)
        next == IF end # capacity
                THEN WordOr(ToWord(end), revolution)
                ELSE WordXor(revolution, revolution_flag)
    IN  Acquisition(begin, end, next)

\* lines 291-315: the range and the word release() will store
AcquireRange(myPos, theirPos, slots, capacity) ==
    LET begin == WordAnd(myPos, ToWord(position_mask)).value
        end0 == WordAnd(theirPos, ToWord(position_mask)).value
        end1 == IF end0 > begin THEN end0 ELSE capacity
        end == Min(end1, begin + slots)
        revolution == WordAnd(myPos, revolution_flag)
        next == IF end # capacity
                THEN WordOr(ToWord(end), revolution)
                ELSE WordXor(revolution, revolution_flag)
    IN  Acquisition(begin, end, next)

\* variant of NotifyOne: the wake-up is lost
NotifyOne_Lost(s, t) == t

\* mine.notify_one(): the peer, if it sleeps in wait() on this word, returns from it
NotifyOne(s, t) ==
    IF t[Peer(s)].pc = "parked"
    THEN [t EXCEPT ![Peer(s)].pc = "loop"]
    ELSE t

\* ~arc, lines 174-199: the slots whose elements it destroys
\* variant of ArcDestroys: a buffer that wraps around is cleared as a whole
ArcDestroys_WholeBuffer(consumerWord, producerWord, capacity) ==
    LET differentRevolution ==
            WordAnd(WordXor(consumerWord, producerWord), revolution_flag) # ZeroWord
        beg == WordAnd(consumerWord, ToWord(position_mask)).value
        end == WordAnd(producerWord, ToWord(position_mask)).value
    IN  IF end > beg THEN beg .. (end - 1)
        ELSE IF differentRevolution THEN 0 .. (capacity - 1)
        ELSE {}

ArcDestroys(consumerWord, producerWord, capacity) ==
    LET differentRevolution ==
            WordAnd(WordXor(consumerWord, producerWord), revolution_flag) # ZeroWord
        beg == WordAnd(consumerWord, ToWord(position_mask)).value
        end == WordAnd(producerWord, ToWord(position_mask)).value
    IN  IF end > beg THEN beg .. (end - 1)
        ELSE IF differentRevolution THEN (0 .. (end - 1)) \cup (beg .. (capacity - 1))
        ELSE {}

(* ---- the buffer: the slots that hold a constructed element ---- *)
Construct(d, b, e, base) ==
    [i \in (DOMAIN d) \cup (b .. (e - 1)) |->
        IF i \in b .. (e - 1) THEN Source(base + (i - b) + 1) ELSE d[i]]

Destroy(d, slots) == [i \in (DOMAIN d) \ slots |-> d[i]]

\* reading a slot that holds no constructed element yields an indeterminate value
ReadSlot(i) == IF i \in DOMAIN _data THEN {_data[i]} ELSE 0 .. MaxSend

RECURSIVE ReadRange(_, _)
ReadRange(b, e) ==
    IF b >= e THEN {<<>>}
    ELSE {<<v>> \o r : v \in ReadSlot(b), r \in ReadRange(b + 1, e)}

SourceRange(from, n) == [j \in 1 .. n |-> Source(from + j)]

Handle(s) == IF s = "producer" THEN sender ELSE receiver

CanCall(s) == chan = "ok" /\ Handle(s) # nullptr /\ th[s].pc = "idle"

Start(o, count, base) ==
    [IdleThread EXCEPT !.pc = "acquire", !.op = o, !.count = count, !.req = count,
                       !.base = base]

BatchCounts == (0 .. MaxBatch) \cup {position_mask + 1}

\* variant of Got: one element per round whatever the range
Got_One(a) == 1

\* lines 402, 493: the number of elements one round transfers
Got(a) == a.end - a.begin

(* ---- sender ---- *)
\* sender::emplace, line 367: the call of producer_acquire(1)
emplace ==
    /\ CanCall("producer")
    /\ in < MaxSend
    /\ th' = [th EXCEPT !["producer"] = Start("emplace", 1, in)]
    /\ ret' = [ret EXCEPT !["producer"] = NoRet]
    /\ UNCHANGED <<chan, capacityArg, other, drops, sender, receiver, arcVars, in, out, sent,
                   consumed, destroyed, outAtDrop, uaf>>

\* sender::move_n, lines 387-394
move_n(count) ==
    /\ CanCall("producer")
    /\ ~validate_size(count) => in + count <= MaxSend
    /\ IF validate_size(count)
       THEN /\ ret' = [ret EXCEPT !["producer"] =
                          [Ret("move_n", FALSE, in, in, count) EXCEPT !.threw = TRUE]]
            /\ UNCHANGED <<th, uaf>>
       ELSE /\ uaf' = (uaf \/ Freed)
            /\ IF count # 0
               THEN /\ th' = [th EXCEPT !["producer"] = Start("move_n", count, in)]
                    /\ ret' = [ret EXCEPT !["producer"] = NoRet]
               ELSE /\ ret' = [ret EXCEPT !["producer"] = Ret("move_n", TRUE, in, in, 0)]
                    /\ UNCHANGED th
    /\ UNCHANGED <<chan, capacityArg, other, drops, sender, receiver, arcVars, in, out, sent,
                   consumed, destroyed, outAtDrop>>

\* emplace lines 368-375, move_n lines 395-404
ProducerBody ==
    LET t == th["producer"]
        a == t.acquisition
        got == Got(a)
    IN  /\ t.pc = "body"
        /\ IF ~acquisition_bool(a)
           THEN /\ ret' = [ret EXCEPT !["producer"] = Ret(t.op, FALSE, t.base, in, t.req)]
                /\ th' = [th EXCEPT !["producer"] = IdleThread]
                /\ UNCHANGED <<_data, in, uaf>>
           ELSE /\ _data' = Construct(_data, a.begin, a.begin + got, in)
                /\ in' = in + got
                /\ th' = [th EXCEPT !["producer"].count = @ - got,
                                    !["producer"].pc = "store"]
                /\ uaf' = (uaf \/ Freed)
                /\ UNCHANGED ret
        /\ UNCHANGED <<chan, capacityArg, other, drops, sender, receiver, allocated, deletes, _capacity,
                       _eitherSideDropped, _producer, _consumer, out, sent, consumed,
                       destroyed, outAtDrop>>

(* ---- receiver ---- *)
\* receiver::pop, line 455: the call of consumer_acquire(1)
pop ==
    /\ CanCall("consumer")
    /\ th' = [th EXCEPT !["consumer"] = Start("pop", 1, Len(out))]
    /\ ret' = [ret EXCEPT !["consumer"] = NoRet]
    /\ UNCHANGED <<chan, capacityArg, other, drops, sender, receiver, arcVars, in, out, sent,
                   consumed, destroyed, outAtDrop, uaf>>

\* receiver::pop_n, lines 477-484
pop_n(count) ==
    /\ CanCall("consumer")
    /\ IF validate_size(count)
       THEN /\ ret' = [ret EXCEPT !["consumer"] =
                          [Ret("pop_n", FALSE, Len(out), Len(out), count) EXCEPT !.threw = TRUE]]
            /\ UNCHANGED <<th, uaf>>
       ELSE /\ uaf' = (uaf \/ Freed)
            /\ IF count # 0
               THEN /\ th' = [th EXCEPT !["consumer"] = Start("pop_n", count, Len(out))]
                    /\ ret' = [ret EXCEPT !["consumer"] = NoRet]
               ELSE /\ ret' = [ret EXCEPT !["consumer"] = Ret("pop_n", TRUE, Len(out), Len(out), 0)]
                    /\ UNCHANGED th
    /\ UNCHANGED <<chan, capacityArg, other, drops, sender, receiver, arcVars, in, out, sent,
                   consumed, destroyed, outAtDrop>>

\* pop lines 456-465, pop_n lines 485-497
ConsumerBody ==
    LET t == th["consumer"]
        a == t.acquisition
        got == Got(a)
    IN  /\ t.pc = "body"
        /\ IF ~acquisition_bool(a)
           THEN /\ ret' = [ret EXCEPT !["consumer"] = Ret(t.op, FALSE, t.base, Len(out), t.req)]
                /\ th' = [th EXCEPT !["consumer"] = IdleThread]
                /\ UNCHANGED <<_data, out, uaf>>
           ELSE /\ \E vals \in ReadRange(a.begin, a.end) : out' = out \o vals
                /\ _data' = Destroy(_data, a.begin .. (a.end - 1))
                /\ th' = [th EXCEPT !["consumer"].count = @ - got,
                                    !["consumer"].pc = "store"]
                /\ uaf' = (uaf \/ Freed)
                /\ UNCHANGED ret
        /\ UNCHANGED <<chan, capacityArg, other, drops, sender, receiver, allocated, deletes, _capacity,
                       _eitherSideDropped, _producer, _consumer, in, sent, consumed,
                       destroyed, outAtDrop>>

(* ---- arc::acquire ---- *)
\* line 263
AcquireEnter(s) ==
    /\ th[s].pc = "acquire"
    /\ th' = [th EXCEPT ![s].myPos = Mine(s), ![s].pc = "loop"]
    /\ uaf' = (uaf \/ Freed)
    /\ UNCHANGED <<chan, capacityArg, other, drops, sender, receiver, arcVars, ret, in, out, sent,
                   consumed, destroyed, outAtDrop>>

\* lines 269-273, then 284-315 once the loop is left
AcquireLoop(s) ==
    LET myPos == th[s].myPos
        theirPos == Theirs(s)
    IN  /\ th[s].pc = "loop"
        /\ IF MustWait(myPos, theirPos, WaitMask(s))
           THEN th' = [th EXCEPT ![s].theirPos = theirPos, ![s].pc = "wait"]
           ELSE IF IsClosed(myPos, theirPos, WaitMask(s))
           THEN th' = [th EXCEPT ![s].theirPos = theirPos,
                                 ![s].acquisition = EmptyAcquisition,
                                 ![s].closed = TRUE,
                                 ![s].pc = "body"]
           ELSE th' = [th EXCEPT ![s].theirPos = theirPos,
                                 ![s].acquisition =
                                     AcquireRange(myPos, theirPos, th[s].count, _capacity),
                                 ![s].closed = FALSE,
                                 ![s].pc = "body"]
        /\ uaf' = (uaf \/ Freed)
        /\ UNCHANGED <<chan, capacityArg, other, drops, sender, receiver, arcVars, ret, in, out, sent,
                       consumed, destroyed, outAtDrop>>

\* variant of WaitSleeps: wait() goes to sleep without comparing the word with `old`
WaitSleeps_Always(current, old) == TRUE

\* lines 63, 65, 68: the comparison WaitOnAddress / futex / the predicate makes
WaitSleeps(current, old) == current = old

\* line 275, atomic_size_type::wait: sleeps only if the word still holds `old`
Wait(s) ==
    /\ th[s].pc = "wait"
    /\ th' = [th EXCEPT ![s].pc = IF WaitSleeps(Theirs(s), th[s].theirPos)
                                  THEN "parked" ELSE "loop"]
    /\ uaf' = (uaf \/ Freed)
    /\ UNCHANGED <<chan, capacityArg, other, drops, sender, receiver, arcVars, ret, in, out, sent,
                   consumed, destroyed, outAtDrop>>

\* wait() may return although nobody notified
SpuriousWake(s) ==
    /\ th[s].pc = "parked"
    /\ th' = [th EXCEPT ![s].pc = "loop"]
    /\ UNCHANGED <<chan, capacityArg, other, drops, sender, receiver, arcVars, ret, in, out, sent,
                   consumed, destroyed, outAtDrop, uaf>>

(* ---- arc::release ---- *)
\* line 321
ReleaseStore(s) ==
    LET a == th[s].acquisition
        got == Got(a)
    IN  /\ th[s].pc = "store"
        /\ StoreMine(s, a.next)
        /\ th' = [th EXCEPT ![s].pc = "notify"]
        /\ IF s = "producer"
           THEN sent' = sent \o SourceRange(in - got, got) /\ UNCHANGED consumed
           ELSE consumed' = consumed + (a.end - a.begin) /\ UNCHANGED sent
        /\ uaf' = (uaf \/ Freed)
        /\ UNCHANGED <<chan, capacityArg, other, drops, sender, receiver, allocated, deletes, _capacity,
                       _data, _eitherSideDropped, ret, in, out, destroyed, outAtDrop>>

\* line 322, then the caller: return (emplace 378, pop 468) or the next round (392, 482)
ReleaseNotify(s) ==
    LET t == th[s]
        woken == NotifyOne(s, th)
    IN  /\ t.pc = "notify"
        /\ IF t.count # 0
           THEN /\ th' = [woken EXCEPT ![s].pc = "acquire"]
                /\ UNCHANGED ret
           ELSE /\ th' = [woken EXCEPT ![s] = IdleThread]
                /\ ret' = [ret EXCEPT ![s] = Ret(t.op, TRUE, t.base,
                                                 IF s = "producer" THEN in ELSE Len(out),
                                                 t.req)]
        /\ uaf' = (uaf \/ Freed)
        /\ UNCHANGED <<chan, capacityArg, other, drops, sender, receiver, arcVars, in, out, sent,
                       consumed, destroyed, outAtDrop>>

(* ---- ~sender / ~receiver and arc::drop ---- *)
\* lines 356-359 / 445-448 and 413-419 / 506-512, then drop() lines 246-247
DropStore(s) ==
    /\ CanCall(s)
    /\ StoreMine(s, WordOr(Mine(s), drop_flag))
    /\ th' = [th EXCEPT ![s] = [IdleThread EXCEPT !.pc = "drop_notify", !.op = "drop"]]
    /\ ret' = [ret EXCEPT ![s] = NoRet]
    /\ drops' = [drops EXCEPT ![s] = @ + 1]
    /\ outAtDrop' = (IF s = "producer" THEN Len(out) ELSE outAtDrop)
    /\ uaf' = (uaf \/ Freed)
    /\ UNCHANGED <<chan, capacityArg, other, sender, receiver, allocated, deletes, _capacity,
                   _data, _eitherSideDropped, in, out, sent, consumed, destroyed>>

\* line 248
DropNotify(s) ==
    /\ th[s].pc = "drop_notify"
    /\ th' = [NotifyOne(s, th) EXCEPT ![s].pc = "drop_exchange"]
    /\ uaf' = (uaf \/ Freed)
    /\ UNCHANGED <<chan, capacityArg, other, drops, sender, receiver, arcVars, ret, in, out, sent,
                   consumed, destroyed, outAtDrop>>

\* variant of DeletesArc: the test of exchange(true) is inverted, the first drop deletes
DeletesArc_First(s, eitherSideDropped) == ~eitherSideDropped

\* line 254: what exchange(true) returned decides whether this call deletes the arc
DeletesArc(s, eitherSideDropped) == eitherSideDropped

\* lines 254-257, and ~arc (172-202) when this is the second drop
DropExchange(s) ==
    /\ th[s].pc = "drop_exchange"
    /\ th[s].op = "drop"
    /\ _eitherSideDropped' = TRUE
    /\ IF DeletesArc(s, _eitherSideDropped)
       THEN LET gone == ArcDestroys(_consumer, _producer, _capacity)
            IN  /\ destroyed' = gone
                /\ _data' = Destroy(_data, gone)
                /\ deletes' = deletes + 1
       ELSE UNCHANGED <<destroyed, _data, deletes>>
    /\ th' = [th EXCEPT ![s].pc = "gone"]
    /\ IF s = "producer"
       THEN sender' = nullptr /\ UNCHANGED receiver
       ELSE receiver' = nullptr /\ UNCHANGED sender
    /\ uaf' = (uaf \/ Freed)
    /\ UNCHANGED <<chan, capacityArg, other, drops, allocated, _capacity, _producer, _consumer, ret,
                   in, out, sent, consumed, outAtDrop>>

(* ---- the handles' special members: sender lines 344-359, receiver lines 433-448 ---- *)
\* the two handle objects a thread owns: the one its calls go through, and a second one
HandleName == {"main", "other"}

\* _arc of handle object h of thread s
HandleArc(s, h) == IF h = "main" THEN Handle(s) ELSE other[s]

\* assigns the _arc members of both handle objects of thread s
SetHandles(s, mainArc, otherArc) ==
    /\ IF s = "producer"
       THEN sender' = mainArc /\ UNCHANGED receiver
       ELSE receiver' = mainArc /\ UNCHANGED sender
    /\ other' = [other EXCEPT ![s] = otherArc]

\* lines 351/440: _arc = std::exchange(other._arc, nullptr), the source is cleared
\* first and then the destination receives the old value (also when dst = src)
ExchangeArc(s, dst, src) ==
    LET old == HandleArc(s, src)
        main1 == IF src = "main" THEN nullptr ELSE Handle(s)
        other1 == IF src = "other" THEN nullptr ELSE other[s]
    IN  SetHandles(s, IF dst = "main" THEN old ELSE main1,
                      IF dst = "other" THEN old ELSE other1)

\* lines 348-352/437-441: operator= has no return statement; flowing off its end is
\* undefined, builds either return to the caller or stop at a trap instruction
AssignOutcome == {"idle", "trap"}

HandleIdle(s) == chan = "ok" /\ th[s].pc = "idle" /\ Handle(s) # NoObject

\* lines 344-347/433-436: drop() finds the default nullptr, then the exchange
MoveConstruct(s) ==
    /\ HandleIdle(s)
    /\ other[s] = NoObject
    /\ SetHandles(s, nullptr, Handle(s))
    /\ UNCHANGED <<chan, capacityArg, drops, arcVars, th, ret, in, out, sent, consumed,
                   destroyed, outAtDrop, uaf>>

\* lines 413-419/506-512 then 246-247: drop() of a handle that holds the arc
HandleDropStore(s, op, dst, src) ==
    /\ drops[s] < MaxDrops
    /\ StoreMine(s, WordOr(Mine(s), drop_flag))
    /\ th' = [th EXCEPT ![s] = [IdleThread EXCEPT !.pc = "drop_notify", !.op = op,
                                                   !.dst = dst, !.src = src]]
    /\ drops' = [drops EXCEPT ![s] = @ + 1]
    /\ outAtDrop' = (IF s = "producer" THEN Len(out) ELSE outAtDrop)
    /\ uaf' = (uaf \/ Freed)
    /\ UNCHANGED <<chan, capacityArg, other, sender, receiver, allocated, deletes, _capacity,
                   _data, _eitherSideDropped, ret, in, out, sent, consumed, destroyed>>

\* lines 348-352/437-441: dst = std::move(src), up to the store of the drop flag
MoveAssign(s, dst, src) ==
    /\ HandleIdle(s)
    /\ HandleArc(s, dst) # NoObject
    /\ HandleArc(s, src) # NoObject
    /\ IF HandleArc(s, dst) = nullptr
       THEN /\ ExchangeArc(s, dst, src)
            /\ \E outcome \in AssignOutcome : th' = [th EXCEPT ![s].pc = outcome]
            /\ UNCHANGED <<chan, capacityArg, drops, arcVars, ret, in, out, sent, consumed,
                           destroyed, outAtDrop, uaf>>
       ELSE HandleDropStore(s, "assign", dst, src)

\* lines 354-357/443-446 for the second handle object
DestroyOther(s) ==
    /\ HandleIdle(s)
    /\ other[s] # NoObject
    /\ IF other[s] = nullptr
       THEN /\ SetHandles(s, Handle(s), NoObject)
            /\ UNCHANGED <<chan, capacityArg, drops, arcVars, th, ret, in, out, sent,
                           consumed, destroyed, outAtDrop, uaf>>
       ELSE HandleDropStore(s, "destroy", "other", "other")

\* lines 254-257 inside operator= or the second handle's destructor, then the rest
\* of that member: the exchange of line 351/440, or the end of the object
HandleDropExchange(s) ==
    /\ th[s].pc = "drop_exchange"
    /\ th[s].op \in {"assign", "destroy"}
    /\ _eitherSideDropped' = TRUE
    /\ IF DeletesArc(s, _eitherSideDropped)
       THEN LET gone == ArcDestroys(_consumer, _producer, _capacity)
            IN  /\ destroyed' = gone
                /\ _data' = Destroy(_data, gone)
                /\ deletes' = deletes + 1
       ELSE UNCHANGED <<destroyed, _data, deletes>>
    /\ IF th[s].op = "assign"
       THEN /\ ExchangeArc(s, th[s].dst, th[s].src)
            /\ \E outcome \in AssignOutcome :
                   th' = [th EXCEPT ![s] = [IdleThread EXCEPT !.pc = outcome]]
       ELSE /\ SetHandles(s, Handle(s), NoObject)
            /\ th' = [th EXCEPT ![s] = IdleThread]
    /\ uaf' = (uaf \/ Freed)
    /\ UNCHANGED <<chan, capacityArg, drops, allocated, _capacity, _producer, _consumer, ret,
                   in, out, sent, consumed, outAtDrop>>

(* ---- specifications ---- *)
ThreadStep(s) ==
    \/ AcquireEnter(s)
    \/ AcquireLoop(s)
    \/ Wait(s)
    \/ ReleaseStore(s)
    \/ ReleaseNotify(s)
    \/ DropNotify(s)
    \/ DropExchange(s)

Next ==
    \/ \E capacity \in CapacityArgs : channel(capacity)
    \/ emplace
    \/ \E count \in BatchCounts : move_n(count)
    \/ ProducerBody
    \/ pop
    \/ \E count \in BatchCounts : pop_n(count)
    \/ ConsumerBody
    \/ \E s \in Side : ThreadStep(s)
    \/ \E s \in Side : SpuriousWake(s)
    \/ \E s \in Side : DropStore(s)

\* each side uses the handle channel() returned and destroys it once; the handles'
\* move constructor and move assignment are the subject of SpecHandles
Spec == Init /\ [][Next]_vars

\* a thread inside a call keeps running; calls, destructors and spurious wake-ups are not forced
Running(s) ==
    \/ ThreadStep(s)
    \/ (s = "producer" /\ ProducerBody)
    \/ (s = "consumer" /\ ConsumerBody)

FairSpec == Spec /\ \A s \in Side : WF_vars(Running(s))

\* the threads move, assign and destroy their handles; no element is transferred
NextHandles ==
    \/ \E capacity \in CapacityArgs : channel(capacity)
    \/ \E s \in Side : MoveConstruct(s)
    \/ \E s \in Side, dst \in HandleName, src \in HandleName : MoveAssign(s, dst, src)
    \/ \E s \in Side : DestroyOther(s)
    \/ \E s \in Side : HandleDropExchange(s)
    \/ \E s \in Side : DropStore(s)
    \/ \E s \in Side : DropNotify(s)
    \/ \E s \in Side : DropExchange(s)

SpecHandles == Init /\ [][NextHandles]_vars

(* ---- properties ---- *)
IsPrefix(a, b) == Len(a) <= Len(b) /\ \A i \in 1 .. Len(a) : a[i] = b[i]

P == th["producer"]

C == th["consumer"]

\* C1: FIFO order. At every moment the values the consumer has received (by pop or
\* pop_n) are a prefix of the values the producer has sent (by emplace or move_n):
\* same order, nothing duplicated, skipped or altered, also past the capacity.
C1_FifoOrder == IsPrefix(out, sent)

\* more values than the capacity went through a channel that wrapped around
C1_Witness == _capacity = 2 /\ Len(out) = 4 /\ out = sent

\* C2: capacity boundary. While the connected receiver has released nothing, at most
\* _capacity elements are sent, the producer reaches wait() only with exactly
\* _capacity elements sent, and with _capacity elements sent it holds no further range.
C2_CapacityBoundary ==
    (chan = "ok" /\ consumed = 0 /\ _consumer.drop = 0) =>
        /\ Len(sent) <= _capacity
        /\ P.pc \in {"wait", "parked"} => Len(sent) = _capacity
        /\ Len(sent) = _capacity => ~(P.pc \in {"body", "store"})

\* the fourth emplace on a channel of capacity 3 sleeps in wait(), nothing consumed
C2_Witness ==
    /\ _capacity = 3 /\ consumed = 0 /\ _consumer.drop = 0
    /\ P.pc = "parked" /\ P.op = "emplace" /\ Len(sent) = 3

InAcquire(t) == t.pc \in {"acquire", "loop", "wait", "parked"}

InCall(t) == t.pc \in {"acquire", "loop", "wait", "parked", "body", "store", "notify"}

\* the producer's call returns in this step
ProducerReturns ==
    /\ ret'["producer"] # ret["producer"]
    /\ ret'["producer"].op \in {"emplace", "move_n"}

\* C3, as claimed: once the Receiver has been dropped, every emplace / move_n (of at
\* least one element) that returns, returns false.
C3_Original ==
    [][(ProducerReturns /\ C.pc = "gone" /\ ret'["producer"].req >= 1)
          => ~ret'["producer"].ok]_vars

C3_ClosedAfterFlagRead ==
    (P.theirPos.drop = 1 /\ P.pc \in {"body", "store", "notify"})
        => (P.pc = "body" /\ ~acquisition_bool(P.acquisition))

C3_ClosedReturnsFalse ==
    [][(P.pc = "body" /\ ~acquisition_bool(P.acquisition) /\ P'.pc # "body")
          => (P'.pc = "idle" /\ ~ret'["producer"].ok)]_vars

C3_NeverBlocked ==
    (_consumer.drop = 1 /\ InAcquire(P)) ~> (P.pc = "idle" /\ ~ret["producer"].ok)

\* C3, amended: once the consumer's drop flag is stored, a producer_acquire that reads
\* the consumer word returns Closed whatever the free slots, the call returns false,
\* and every emplace / move_n that has not yet passed that read (one parked on a full
\* buffer included) returns false instead of staying blocked.
C3_DisconnectProducer ==
    /\ []C3_ClosedAfterFlagRead
    /\ C3_ClosedReturnsFalse
    /\ C3_NeverBlocked

\* an emplace that slept on a full buffer returned false after the receiver's drop
C3_Witness ==
    /\ ret["producer"].op = "emplace" /\ ~ret["producer"].ok
    /\ Len(sent) = _capacity /\ consumed = 0 /\ _consumer.drop = 1

C4_ClosedOnlyWhenDrained ==
    /\ IsPrefix(out, sent)
    /\ (ret["consumer"].op \in {"pop", "pop_n"} /\ ~ret["consumer"].ok
            /\ ~ret["consumer"].threw)
          => (_producer.drop = 1 /\ out = sent)
    /\ (C.pc = "body" /\ ~acquisition_bool(C.acquisition))
          => (_producer.drop = 1 /\ out = sent)

C4_NeverBlocked == (_producer.drop = 1 /\ InCall(C)) ~> (C.pc = "idle")

\* C4: disconnect, consumer side. After the Sender's drop pop / pop_n return the values
\* sent before it, in send order, and report closed only once all of them have been
\* received; a consumer inside a call after the drop returns.
C4_DisconnectConsumer ==
    /\ []C4_ClosedOnlyWhenDrained
    /\ C4_NeverBlocked

\* pop reported closed after a full, wrapped buffer of capacity 3 was drained after the drop
C4_Witness ==
    /\ ret["consumer"].op = "pop" /\ ~ret["consumer"].ok
    /\ _capacity = 3 /\ Len(sent) = 4 /\ outAtDrop = 1 /\ out = sent

\* C5: Closed only on a real disconnect. A call returns false / nullopt only when the
\* peer's drop flag is set, acquire takes its `return {}` path only then, and a range
\* it returns otherwise is never read as Closed: its end is not 0.
C5_ClosedOnlyOnDisconnect ==
    \A s \in Side :
        /\ (ret[s].op # "none" /\ ~ret[s].ok /\ ~ret[s].threw) => Theirs(s).drop = 1
        /\ th[s].closed => Theirs(s).drop = 1
        /\ th[s].pc = "body" => (acquisition_bool(th[s].acquisition) <=> ~th[s].closed)
        /\ th[s].pc \in {"store", "notify"} => th[s].acquisition.end # 0

\* the producer got the range up to the end of the buffer while the consumer word's value is 0
C5_Witness ==
    /\ P.pc = "body" /\ ~P.closed /\ P.theirPos = ZeroWord
    /\ P.acquisition.begin > 0 /\ P.acquisition.end = _capacity

\* C6: channel(capacity) with capacity > position_mask fails with Overflow and creates
\* no arc, no sender and no receiver.
C6_OverflowRejected ==
    (chan # "none" /\ capacityArg > position_mask)
        => (chan = "overflow" /\ ~allocated /\ sender = nullptr /\ receiver = nullptr)

\* C7: channel(0) fails with InvalidArgument and allocates nothing; for a capacity in
\* 1 .. position_mask it succeeds with one sender and one receiver on the same new arc:
\* both positions 0 with clear flags, _eitherSideDropped false.
C7_ChannelValidation ==
    [][chan = "none" /\ chan' # "none" =>
          /\ capacityArg' = 0 =>
                /\ chan' = "invalid_argument"
                /\ ~allocated' /\ sender' = nullptr /\ receiver' = nullptr
          /\ capacityArg' \in 1 .. position_mask =>
                /\ chan' = "ok" /\ allocated' /\ deletes' = 0
                /\ sender' = ArcId /\ receiver' = ArcId
                /\ _capacity' = capacityArg'
                /\ _producer' = ZeroWord /\ _consumer' = ZeroWord
                /\ _eitherSideDropped' = FALSE]_vars

\* channel(position_mask) succeeded and nothing has run on the channel yet
C7_Witness ==
    /\ chan = "ok" /\ capacityArg = position_mask /\ _capacity = position_mask
    /\ sender = ArcId /\ receiver = ArcId /\ P.pc = "idle" /\ C.pc = "idle"
    /\ _producer = ZeroWord /\ _consumer = ZeroWord /\ ~_eitherSideDropped

RoundOver(t) == t.pc \in {"idle", "acquire"}

\* C8: no lost wake-up. Under a fair scheduler a side that is inside acquire's loop
\* (about to load, about to wait, or asleep in wait) while its wait condition is false
\* finishes the round: the producer once a slot is free, the consumer once an element
\* is there.
C8_NoLostWakeup ==
    /\ (P.pc \in {"loop", "wait", "parked"} /\ ~MustWait(P.myPos, _consumer, revolution_flag))
          ~> RoundOver(P)
    /\ (C.pc \in {"loop", "wait", "parked"} /\ ~MustWait(C.myPos, _producer, ZeroWord))
          ~> RoundOver(C)

\* the producer still sleeps although the consumer has already stored a new position
C8_Witness ==
    /\ P.pc = "parked" /\ _consumer.drop = 0
    /\ ~MustWait(P.myPos, _consumer, revolution_flag)

\* C9: batch result. move_n / pop_n return true exactly when count elements were
\* transferred; the iterator is advanced by the number transferred, which are the first
\* elements of the batch in order; false comes only with the peer's drop flag set, and
\* for pop_n only after everything sent has been received.
C9_BatchResult ==
    /\ LET r == ret["producer"]
           k == r.first - r.base
       IN  (r.op = "move_n" /\ ~r.threw) =>
               /\ r.ok <=> k = r.req
               /\ 0 <= k /\ k <= r.req
               /\ ~r.ok => _consumer.drop = 1
               /\ Len(sent) = r.first
               /\ \A i \in (r.base + 1) .. r.first : sent[i] = Source(i)
    /\ LET r == ret["consumer"]
           k == r.first - r.base
       IN  (r.op = "pop_n" /\ ~r.threw) =>
               /\ r.ok <=> k = r.req
               /\ 0 <= k /\ k <= r.req
               /\ Len(out) = r.first /\ r.first <= Len(sent)
               /\ \A i \in (r.base + 1) .. r.first : out[i] = sent[i]
               /\ ~r.ok => (_producer.drop = 1 /\ out = sent)

\* move_n(2) stopped after one element because the receiver dropped in between
C9_Witness ==
    LET r == ret["producer"]
    IN  r.op = "move_n" /\ ~r.ok /\ r.req = 2 /\ r.first - r.base = 1

\* C10: teardown. The arc is deleted once, by the second of the two drops and not
\* before, and no step of either thread touches the arc after the delete.
C10_TeardownSafety ==
    /\ deletes = (IF P.pc = "gone" /\ C.pc = "gone" THEN 1 ELSE 0)
    /\ ~uaf

\* the second drop deleted the arc and destroyed the unread elements at both ends of the buffer
C10_Witness ==
    /\ deletes = 1 /\ P.pc = "gone" /\ C.pc = "gone"
    /\ _capacity = 3 /\ destroyed = {0, 2} /\ DOMAIN _data = {}

\* C11: handle ownership. Over every sequence of move constructions, move assignments
\* (onto an empty handle, onto a handle that holds the channel, onto itself) and
\* destructions of a side's handles, drop_producer / drop_consumer is called at most
\* once for the channel, and exactly once when the side's last handle is gone.
C11_DropOncePerSide ==
    \A s \in Side :
        /\ drops[s] <= 1
        /\ (th[s].pc = "gone" /\ other[s] = NoObject) => drops[s] = 1

\* number of elements released by the producer and not yet released by the consumer
Unread == Len(sent) - consumed

\* C12: bounded occupancy. In every state the number of elements the producer has
\* released minus the number the consumer has released is at least 0 and at most
\* _capacity: no unread element is overwritten and nothing unsent is read.
C12_BoundedOccupancy == 0 <= Unread /\ Unread <= _capacity

\* a buffer of two slots is full again after both sides went around it once
C12_Witness == _capacity = 2 /\ consumed = 2 /\ Unread = 2

\* C13: position encoding. With p, c the value fields and rp, rc the revolution flags
\* of the producer and consumer word, the number of unread elements is p - c when
\* rp = rc (then c <= p) and _capacity - c + p when rp # rc (then p <= c); equal
\* words mean an empty buffer, words that differ only in the revolution flag mean
\* exactly _capacity unread elements. The drop flags play no part.
C13_PositionEncoding ==
    LET p == _producer.value
        c == _consumer.value
    IN  /\ _producer.rev = _consumer.rev => (c <= p /\ Unread = p - c)
        /\ _producer.rev # _consumer.rev => (p <= c /\ Unread = _capacity - c + p)
        /\ (p = c /\ _producer.rev = _consumer.rev) => Unread = 0
        /\ (p = c /\ _producer.rev # _consumer.rev) => Unread = _capacity

\* the producer is one revolution ahead, one element of three is unread across the end
C13_Witness ==
    /\ _capacity = 3 /\ _producer.rev # _consumer.rev
    /\ _producer.value = 0 /\ _consumer.value = 2 /\ Unread = 1 /\ _consumer.drop = 1

\* thread s holds the range of an acquire() that did not return Closed
HoldsRange(s) == th[s].pc = "body" /\ ~th[s].closed

\* the slots of the range thread s was given
RangeOf(s) == th[s].acquisition.begin .. (th[s].acquisition.end - 1)

\* C14: acquire range. A range returned by an acquire that is not Closed begins at
\* the caller's own position, is not empty, ends at or before _capacity, has at most
\* requestedSlots slots, ends at the peer's value as read if that is above begin and
\* at _capacity otherwise, cut to begin + requestedSlots; each of its slots is free
\* for the producer and holds an unread element for the consumer.
C14_AcquireRange ==
    \A s \in Side :
        HoldsRange(s) =>
            LET a == th[s].acquisition
                slots == th[s].count
                limit == IF th[s].theirPos.value > a.begin
                         THEN th[s].theirPos.value ELSE _capacity
            IN  /\ slots >= 1
                /\ a.begin = Mine(s).value
                /\ a.begin < a.end /\ a.end <= _capacity
                /\ a.end - a.begin <= slots
                /\ a.end = Min(limit, a.begin + slots)
                /\ s = "producer" => RangeOf(s) \cap DOMAIN _data = {}
                /\ s = "consumer" => /\ RangeOf(s) \subseteq DOMAIN _data
                                     /\ \A i \in RangeOf(s) : _data[i] <= Len(sent)

\* pop_n(2) at slot 1 of 3 after the producer went around: its range ends at capacity,
\* while move_n at slot 0 is given the one slot below the consumer's position
C14_Witness ==
    /\ HoldsRange("consumer") /\ C.op = "pop_n" /\ C.count = 2 /\ _capacity = 3
    /\ C.theirPos.value = 0 /\ C.acquisition.begin = 1 /\ C.acquisition.end = 3
    /\ HoldsRange("producer") /\ P.op = "move_n" /\ P.theirPos.value = 1
    /\ P.acquisition.begin = 0 /\ P.acquisition.end = 1

\* thread s has transferred the elements of its round and not yet returned or re-acquired
RoundDone(s) == th[s].pc \in {"store", "notify"}

\* C15: wraparound split. No acquired range goes past the end of the buffer; a round
\* whose request reaches past the end transfers only the slots up to _capacity and
\* leaves a remainder for a further acquire/release round, which starts at slot 0;
\* element number k always lies in slot (k - 1) mod _capacity, so the order of the
\* elements is kept across revolutions.
C15_WraparoundSplit ==
    /\ \A s \in Side :
           /\ HoldsRange(s) => th[s].acquisition.end <= _capacity
           /\ RoundDone(s) =>
                  LET a == th[s].acquisition
                      requested == th[s].count + (a.end - a.begin)
                  IN  /\ a.begin + requested > _capacity => th[s].count > 0
                      /\ a.end = _capacity => a.next.value = 0
    /\ \A i \in DOMAIN _data : i < _capacity /\ (_data[i] - 1) % _capacity = i
    /\ \A k \in 1 .. Len(sent) : sent[k] = Source(k)
    /\ IsPrefix(out, sent)

\* move_n(2) called at the last of three slots is in its second round, at slot 0
C15_Witness ==
    /\ _capacity = 3 /\ HoldsRange("producer") /\ P.op = "move_n" /\ P.req = 2
    /\ P.base = 2 /\ P.count = 1 /\ P.acquisition.begin = 0 /\ P.acquisition.end = 1
    /\ Len(sent) = 3

\* the word a side holds after it has released n elements in all
Committed(w, n) ==
    /\ w.value < _capacity
    /\ w.value = n % _capacity
    /\ w.rev = (n \div _capacity) % 2

\* thread s stores its position in release() in this step
Releases(s) == th[s].pc = "store" /\ th'[s].pc = "notify"

\* C16: committed position. The value field of both position words is always below
\* _capacity, and the revolution flag of a side has toggled once for each time the
\* side passed the end of the buffer. A release stores value 0 with the flag flipped
\* exactly when its range ended at _capacity, and otherwise the end of the range
\* with the flag unchanged.
C16_CommittedPosition ==
    /\ [](_capacity > 0 => /\ Committed(_producer, Len(sent))
                           /\ Committed(_consumer, consumed))
    /\ [][\A s \in Side :
            Releases(s) =>
                LET a == th[s].acquisition
                IN  IF a.end = _capacity
                    THEN Mine(s)'.value = 0 /\ Mine(s)'.rev = 1 - Mine(s).rev
                    ELSE Mine(s)'.value = a.end /\ Mine(s)'.rev = Mine(s).rev]_vars

\* the producer has just released the last slot of its second pass over two slots
C16_Witness ==
    /\ _capacity = 2 /\ P.pc = "notify" /\ P.acquisition.end = 2 /\ Len(sent) = 4
    /\ _producer.value = 0 /\ _producer.rev = 0 /\ _consumer.rev = 1

\* thread s stores its position with the drop flag in drop() in this step
Drops(s) == th[s].pc = "idle" /\ th'[s].pc = "drop_notify"

\* C17: single-writer frame. The producer word changes only in a store of the
\* producer's release or drop and the consumer word only in a store of the
\* consumer's release or drop; such a step leaves the other side's word and the other
\* side's locals as they are, and no step of an acquire changes either word.
C17_SingleWriter ==
    [][/\ \A s \in Side :
              Mine(s)' # Mine(s) =>
                  /\ Releases(s) \/ Drops(s)
                  /\ Theirs(s)' = Theirs(s)
                  /\ th'[Peer(s)] = th[Peer(s)]
       /\ \A s \in Side :
              (InAcquire(th[s]) /\ th'[s] # th[s]) =>
                  (_producer' = _producer /\ _consumer' = _consumer)]_vars

\* both sides have just stored a position of their own, after a producer release
\* that the consumer's locals did not see
C17_Witness ==
    /\ _capacity = 3 /\ P.pc = "notify" /\ C.pc = "notify"
    /\ _producer.value = 2 /\ _consumer.value = 1 /\ C.theirPos.value = 1

\* the slots thread s has acquired and not yet released
Held(s) == IF HoldsRange(s) \/ th[s].pc = "store" THEN RangeOf(s) ELSE {}

\* C18: slot exclusivity. The range the producer holds and the range the consumer
\* holds never share a slot; the producer constructs only into slots that hold no
\* element, the consumer reads only slots that hold an element the producer has
\* released, and an element not yet released lies in the range the producer holds.
C18_SlotExclusivity ==
    /\ Held("producer") \cap Held("consumer") = {}
    /\ HoldsRange("producer") => RangeOf("producer") \cap DOMAIN _data = {}
    /\ HoldsRange("consumer") =>
           \A i \in RangeOf("consumer") : i \in DOMAIN _data /\ _data[i] <= Len(sent)
    /\ \A i \in DOMAIN _data :
           IF _data[i] > Len(sent) THEN i \in Held("producer") ELSE i \notin Held("producer")

\* the producer has constructed into slot 0 and not released it, while the consumer
\* is about to read slots 1 and 2
C18_Witness ==
    /\ _capacity = 3 /\ P.pc = "store" /\ Held("producer") = {0}
    /\ HoldsRange("consumer") /\ Held("consumer") = {1, 2} /\ DOMAIN _data = {0, 1, 2}

\* C19: teardown. The drop that deletes the arc destroys exactly the slots that hold
\* a sent and not yet received element, whatever the drop flags: the segment
\* [consumer, producer) when the producer's value is above the consumer's, the two
\* disjoint segments [0, producer) and [consumer, _capacity) when the revolution
\* flags differ, nothing when values and revolution flags are equal; no element is
\* left behind and no empty slot is destroyed.
C19_TeardownDestroysLive ==
    [][deletes' = deletes + 1 =>
          LET p == _producer.value
              c == _consumer.value
              live == DOMAIN _data
          IN  /\ destroyed' = live /\ DOMAIN _data' = {}
              /\ Cardinality(live) = Unread
              /\ \A i \in live : consumed < _data[i] /\ _data[i] <= Len(sent)
              /\ p > c => destroyed' = c .. (p - 1)
              /\ _producer.rev # _consumer.rev =>
                     /\ p <= c
                     /\ destroyed' = (0 .. (p - 1)) \cup (c .. (_capacity - 1))
              /\ (p = c /\ _producer.rev = _consumer.rev) => destroyed' = {}]_vars

\* both sides dropped a full buffer of two slots whose positions meet at slot 1
C19_Witness ==
    /\ deletes = 1 /\ _capacity = 2 /\ destroyed = {0, 1} /\ DOMAIN _data = {}
    /\ _producer.value = 1 /\ _consumer.value = 1 /\ _producer.rev # _consumer.rev
    /\ _producer.drop = 1 /\ _consumer.drop = 1

\* the state in which side s has to wait: a full buffer for the producer, an empty one
\* for the consumer, and a peer that has not dropped
Blocked(s) ==
    /\ Unread = (IF s = "producer" THEN _capacity ELSE 0)
    /\ Theirs(s).drop = 0

\* C20, as claimed: a side sleeps in wait() only in states where the buffer is full
\* (producer) or empty (consumer) and the peer has not dropped, and the two sides
\* never sleep at once.
C20_Original ==
    /\ \A s \in Side : th[s].pc = "parked" => Blocked(s)
    /\ ~(P.pc = "parked" /\ C.pc = "parked")

\* the peer of s has stored a new position or its drop flag and not yet called notify_one
WakePending(s) == th[Peer(s)].pc \in {"notify", "drop_notify"}

\* C20: blocking condition and deadlock freedom. A side falls asleep in wait() only in
\* a state where the buffer is full (producer) or empty (consumer) and the peer has not
\* dropped; while it sleeps that is still so, or the peer has already stored and is
\* about to notify; the two sides never sleep at once.
C20_BlockingCondition ==
    /\ [](\A s \in Side : th[s].pc = "parked" => (Blocked(s) \/ WakePending(s)))
    /\ [](~(P.pc = "parked" /\ C.pc = "parked"))
    /\ [][\A s \in Side : (th[s].pc = "wait" /\ th'[s].pc = "parked") => Blocked(s)]_vars

\* the producer sleeps on a full buffer of one slot, the consumer has stored its drop
\* flag and is about to notify
C20_Witness ==
    /\ _capacity = 1 /\ P.pc = "parked" /\ Unread = 1
    /\ C.pc = "drop_notify" /\ _consumer.drop = 1 /\ ~Blocked("producer")

\* the batch call of side s
BatchOp(s) == IF s = "producer" THEN "move_n" ELSE "pop_n"

\* the iterator of side s: the next input element, the next place of the output
Iterator(s) == IF s = "producer" THEN in ELSE Len(out)

\* side s returns from (or is thrown out of) a call in this step
Returns(s) == ret'[s] # ret[s] /\ ret'[s].op # "none"

\* C21: batch size validation. move_n / pop_n with count above position_mask throw
\* the overflow error and never reach acquire; with count 0 they return true at once.
\* In both cases the step of the call changes neither position word, nor the buffer,
\* nor the iterator, nor the caller's place (it neither acquires nor sleeps), whatever
\* the state of the peer.
C21_BatchSizeValidation ==
    /\ [](\A s \in Side :
            /\ ret[s].threw <=> ret[s].req > position_mask
            /\ ret[s].threw => (ret[s].op = BatchOp(s) /\ ret[s].first = ret[s].base)
            /\ (ret[s].op = BatchOp(s) /\ ret[s].req = 0) =>
                   (ret[s].ok /\ ret[s].first = ret[s].base)
            /\ (th[s].op = BatchOp(s) /\ InCall(th[s])) =>
                   (1 <= th[s].req /\ th[s].req <= position_mask))
    /\ [][\A s \in Side :
            (Returns(s) /\ (ret'[s].threw \/ ret'[s].req = 0)) =>
                /\ th[s].pc = "idle" /\ th' = th
                /\ ret'[s].base = Iterator(s) /\ Iterator(s)' = Iterator(s)
                /\ _producer' = _producer /\ _consumer' = _consumer
                /\ _data' = _data /\ sent' = sent /\ consumed' = consumed]_vars

\* on a full buffer of one slot pop_n was thrown out for its count and move_n(0), which
\* would have to wait for a slot otherwise, returned true
C21_Witness ==
    /\ _capacity = 1 /\ Unread = 1 /\ P.pc = "idle" /\ C.pc = "idle"
    /\ ret["consumer"].op = "pop_n" /\ ret["consumer"].threw
    /\ ret["consumer"].req = position_mask + 1
    /\ ret["producer"].op = "move_n" /\ ret["producer"].req = 0 /\ ret["producer"].ok

====
